---- MODULE Spec2Model ----
(***************************************************************************)
(* Comment-driven multi-project Terraform pipeline of terraform-action.    *)
(*                                                                         *)
(* Two implementations live in the repository and both are modelled; the   *)
(* variable impl says which one a behaviour follows:                       *)
(*   "ts"  the GitHub Action: run / executeProjectCommand (main.ts),       *)
(*         executeTerraform (terraform.ts), validateRequirements           *)
(*         (pr-validation.ts), validateProjectNames (comment-parser.ts);   *)
(*   "go"  the CLI: run / filterProjects (cmd/terraform-action/main.go)    *)
(*         and Executor.Execute (pkg/terraform/executor.go).               *)
(*                                                                         *)
(* The TypeScript code is single threaded: a step of the model is the      *)
(* completion of the awaited call followed by the synchronous code up to   *)
(* the next await.  pc names the call that is awaited.                     *)
(***************************************************************************)
EXTENDS Integers, Sequences, FiniteSets, TLC

\* ---------------------------------------------------------------- bounds
NumProjects == 2        \* configured projects

\* The longest -project list of a comment: as many names as there are projects
\* (a name may be repeated).
MaxRequested == NumProjects

\* ------------------------------------------------------------ input data
ProjectNames == <<"prod", "staging", "dev", "qa">>

ProjectDirs == <<"tf/a", "tf/ab", "tf/c", "tf/d">>

\* A name no configuration holds.
UnknownName == "ghost"

\* plan_requirements / apply_requirements are optional: Undefined marks absence.
Undefined == <<"undefined">>

RequirementOptions ==
    { [plan |-> Undefined,       apply |-> Undefined],
      [plan |-> << >>,           apply |-> << >>],
      [plan |-> <<"mergeable">>, apply |-> <<"approved">>] }

\* ProjectConfig (types.ts); the Go CLI's config.Project also has Branch, a pattern
\* ("": none).  The i-th project with the requirement fields r.
ProjectConfig(i, r) ==
    [name |-> ProjectNames[i], dir |-> ProjectDirs[i], branch |-> "",
     plan_requirements |-> r.plan, apply_requirements |-> r.apply]

\* Config.projects as validateConfig returns it: non-empty, names unique.
Configs ==
    { [i \in 1..NumProjects |-> ProjectConfig(i, f[i])] :
        f \in [1..NumProjects -> RequirementOptions] }

\* PullRequestInfo (types.ts), the fields the pipeline reads.
PullRequestInfo == [mergeable : BOOLEAN, approved : BOOLEAN, isFork : BOOLEAN]

RECURSIVE SeqsUpTo(_, _)
SeqsUpTo(S, n) ==
    IF n = 0 THEN { << >> }
    ELSE LET shorter == SeqsUpTo(S, n - 1)
         IN  shorter \cup { Append(s, x) : s \in { t \in shorter : Len(t) = n - 1 }, x \in S }

ConfiguredNames(cfg) == [i \in 1..Len(cfg) |-> cfg[i].name]

Range(s) == { s[i] : i \in 1..Len(s) }

\* ParsedComment.projects: what a comment may request: configured names, a name
\* that is not configured, the directory of the first project.
RequestedLists ==
    SeqsUpTo(Range(SubSeq(ProjectNames, 1, NumProjects)) \cup {UnknownName, ProjectDirs[1]},
             MaxRequested)

\* ParsedComment.args: the pass-through arguments.
ArgLists == { << >> }

\* Exit codes of the subprocesses: 0, 1, 2 and one "other" code.
InitExitCodes == {0, 1}
PrimaryExitCodes == {0, 1, 2, 3}

VARIABLES
    impl,           \* "ts" | "go"
    config,         \* Config.projects
    remote,         \* the pull request as the hosting platform holds it now
    eventName,      \* github.context.eventName
    pc,             \* the awaited call, or "start" / "done"
    command,        \* "plan" | "apply"
    projectFilter,  \* Go: the project filter ParseCommand returned ("": none)
    requested,      \* ParsedComment.projects: the names the comment requests
    targets,        \* targetProjectNames (Go: the names of the filtered projects)
    args,           \* pass-through arguments
    pr,             \* << >> (null) or <<PullRequestInfo>>: the fetched snapshot
    fetches,        \* calls of getPullRequestInfo / GetPRInfo
    setups,         \* calls of setupTfcmt
    idx,            \* position of the current project in targets
    planFilePath,   \* << >> (undefined) or <<path>>: the downloaded plan of the project
    tfcmtArgs,      \* executeTerraform's tfcmtArgs for the current project
    saves,          \* history: the calls of uploadPlanFile, in order
    initExit,       \* << >> or <<exit code>> of the current project's terraform init
    stderr,         \* executeTerraform's captured stderr: the chunks received
    running,        \* subprocesses started and not yet completed
    calls,          \* history: subprocesses started, in order
    gates,          \* history: requirement checks made, with the status each read
    result,         \* << >> or <<TerraformResult>>: what executeTerraform returned last
    status,         \* "running" | "skipped" | "success" | "failed"
    failure,        \* << >> or <<message>>: what setFailed / log.Fatalf got
    setFailedCalls, \* calls of core.setFailed
    fnIn,           \* the arguments of a function that is applied on its own
    fnOut,          \* << >> or <<what the function returned>>
    disk,           \* the files of the runner: a set of [path, content]
    artifacts,      \* the artifact store: a set of [name, files]
    saved,          \* << >> or <<outcome of the last uploadPlanFile>>
    loaded          \* << >> or <<outcome of the last downloadPlanFile>>

vars == <<impl, config, remote, eventName, pc, command, projectFilter, requested,
          targets, args,
          pr, fetches, setups, idx, planFilePath, tfcmtArgs, saves, initExit, stderr,
          running, calls, gates, result, status, failure, setFailedCalls,
          fnIn, fnOut, disk, artifacts, saved, loaded>>

\* The variables of the functions applied on their own, and those of a run.
auxVars == <<fnIn, fnOut, disk, artifacts, saved, loaded>>

runVars == <<impl, config, remote, eventName, pc, command, projectFilter, requested,
             targets, args, pr, fetches, setups, idx, planFilePath, tfcmtArgs, saves,
             initExit, stderr, running, calls, gates, result, status, failure,
             setFailedCalls>>

\* ------------------------------------------------------- pure functions

\* getDefaultRequirements (config.ts)
getDefaultRequirements(cmd) ==
    IF cmd = "apply" THEN <<"mergeable", "approved">> ELSE <<"mergeable">>

\* executeProjectCommand: project.<cmd>_requirements ?? getDefaultRequirements(cmd)
RequirementsOf(project, cmd) ==
    IF cmd = "plan"
    THEN (IF project.plan_requirements # Undefined
          THEN project.plan_requirements ELSE getDefaultRequirements("plan"))
    ELSE (IF project.apply_requirements # Undefined
          THEN project.apply_requirements ELSE getDefaultRequirements("apply"))

\* A validateRequirements that stops at the first requirement that is not met.
RECURSIVE RequirementFailures_FirstOnly(_, _)
RequirementFailures_FirstOnly(prInfo, requirements) ==
    IF requirements = << >> THEN << >>
    ELSE LET requirement == Head(requirements)
             here == IF requirement = "mergeable" /\ ~prInfo.mergeable
                         THEN <<"PR is not mergeable (conflicts or failing checks)">>
                     ELSE IF requirement = "approved" /\ ~prInfo.approved
                         THEN <<"PR is not approved">>
                     ELSE << >>
         IN  IF here # << >> THEN here
             ELSE RequirementFailures_FirstOnly(prInfo, Tail(requirements))

\* validateRequirements (pr-validation.ts): the failures pushed, in list order.
RECURSIVE RequirementFailures(_, _)
RequirementFailures(prInfo, requirements) ==
    IF requirements = << >> THEN << >>
    ELSE LET requirement == Head(requirements)
             here == IF requirement = "mergeable" /\ ~prInfo.mergeable
                         THEN <<"PR is not mergeable (conflicts or failing checks)">>
                     ELSE IF requirement = "approved" /\ ~prInfo.approved
                         THEN <<"PR is not approved">>
                     ELSE << >>
         IN  here \o RequirementFailures(prInfo, Tail(requirements))

\* A validateProjectNames that, when some requested name is not configured, names
\* the first requested name instead of the first one that is not configured.
ProjectNamesError_NamesFirstRequested(requestedProjects, configuredProjects) ==
    IF \A k \in 1..Len(requestedProjects) : requestedProjects[k] \in Range(configuredProjects)
    THEN << >>
    ELSE << [kind |-> "projectNotFound",
             detail |-> <<Head(requestedProjects)>> \o configuredProjects] >>

\* validateProjectNames (comment-parser.ts): << >> when every requested name is
\* configured, else the error thrown for the first one that is not.
RECURSIVE ProjectNamesError(_, _)
ProjectNamesError(requestedProjects, configuredProjects) ==
    IF requestedProjects = << >> THEN << >>
    ELSE IF Head(requestedProjects) \notin Range(configuredProjects)
         THEN << [kind |-> "projectNotFound",
                  detail |-> <<Head(requestedProjects)>> \o configuredProjects] >>
         ELSE ProjectNamesError(Tail(requestedProjects), configuredProjects)

\* config.projects.find((p) => p.name === projectName)
FindProject(cfg, projectName) ==
    cfg[CHOOSE i \in 1..Len(cfg) : cfg[i].name = projectName
                                   /\ \A j \in 1..(i - 1) : cfg[j].name # projectName]

\* artifact-manager.ts: const artifactName = `tfplan-${projectName}`
ArtifactName(projectName) == <<"tfplan-", projectName>>

\* Strings that are built from parts are the sequences of their parts.
\* process.cwd()
Cwd == <<"/work">>

\* executeProjectCommand: path.resolve(project.dir)
WorkingDir(dir) == IF dir = "." THEN Cwd ELSE Cwd \o <<"/", dir>>

\* executeTerraform: path.join(workingDir, `tfplan-${projectName}`);
\* downloadPlanFile: `${downloadResult.downloadPath}/${planFileName}`
PlanFileIn(directory, projectName) == directory \o <<"/", "tfplan-", projectName>>

AutoApprove == <<"-auto-approve">>

\* An executeTerraform that adds -auto-approve to every apply, plan file or not.
TfcmtArgs_AlwaysAutoApprove(cmd, workingDir, projectName, additionalArgs, planPath) ==
    << <<"-var">>, <<"target:", projectName>>, <<cmd>>, <<"--">>, <<"terraform">>, <<cmd>> >>
    \o (IF cmd = "plan" THEN << <<"-out=">> \o PlanFileIn(workingDir, projectName) >>
        ELSE IF cmd = "apply" /\ planPath # << >> THEN << planPath[1], AutoApprove >>
        ELSE IF cmd = "apply" THEN << AutoApprove >>
        ELSE << >>)
    \o additionalArgs
    \o << <<"-no-color">>, <<"-input=false">> >>

\* executeTerraform: tfcmtArgs, a sequence of tokens.
TfcmtArgs(cmd, workingDir, projectName, additionalArgs, planPath) ==
    << <<"-var">>, <<"target:", projectName>>, <<cmd>>, <<"--">>, <<"terraform">>, <<cmd>> >>
    \o (IF cmd = "plan" THEN << <<"-out=">> \o PlanFileIn(workingDir, projectName) >>
        ELSE IF cmd = "apply" /\ planPath # << >> THEN << planPath[1] >>
        ELSE IF cmd = "apply" THEN << AutoApprove >>
        ELSE << >>)
    \o additionalArgs
    \o << <<"-no-color">>, <<"-input=false">> >>

\* ------------------------------------------------- the run's local state

Cur ==
    [pc |-> pc, idx |-> idx, planFilePath |-> planFilePath, tfcmtArgs |-> tfcmtArgs,
     saves |-> saves, initExit |-> initExit, stderr |-> stderr,
     running |-> running, calls |-> calls, gates |-> gates, result |-> result,
     status |-> status, failure |-> failure, setFailedCalls |-> setFailedCalls]

Become(s) ==
    /\ pc' = s.pc
    /\ idx' = s.idx
    /\ planFilePath' = s.planFilePath
    /\ tfcmtArgs' = s.tfcmtArgs
    /\ saves' = s.saves
    /\ initExit' = s.initExit
    /\ stderr' = s.stderr
    /\ running' = s.running
    /\ calls' = s.calls
    /\ gates' = s.gates
    /\ result' = s.result
    /\ status' = s.status
    /\ failure' = s.failure
    /\ setFailedCalls' = s.setFailedCalls

\* A subprocess is started and awaited; pos is the position of the project in
\* targets (0: none).
Spawn(s, projectName, step, awaited) ==
    LET call == [pos |-> s.idx, project |-> projectName, step |-> step]
    IN  [s EXCEPT !.pc = awaited, !.running = @ \cup {call}, !.calls = Append(@, call)]

\* ------------------------------------------------------ TypeScript action

\* An error that leaves run without reaching its catch: setFailed is not called.
TsFail_Unhandled(s, message) ==
    [s EXCEPT !.pc = "done", !.status = "failed", !.failure = <<message>>]

\* run's catch: core.setFailed(message)
TsFail(s, message) ==
    [s EXCEPT !.pc = "done", !.status = "failed", !.failure = <<message>>,
              !.setFailedCalls = @ + 1]

\* An executeTerraform that starts the primary operation without awaiting init.
TsExecuteTerraform_InitNotAwaited(s, project) ==
    Spawn(Spawn([s EXCEPT !.stderr = << >>, !.result = << >>, !.initExit = << >>,
                          !.tfcmtArgs = TfcmtArgs(command, WorkingDir(project.dir),
                                                  project.name, args, s.planFilePath)],
                project.name, "init", "init"),
          project.name, command, "primary")

\* executeTerraform up to its first await: exec.exec('terraform init', [], options)
TsExecuteTerraform(s, project) ==
    Spawn([s EXCEPT !.stderr = << >>, !.result = << >>, !.initExit = << >>,
                    !.tfcmtArgs = TfcmtArgs(command, WorkingDir(project.dir),
                                            project.name, args, s.planFilePath)],
          project.name, "init", "init")

\* A requirement check made for the wrong command.
TsValidates_PlanOnly(cmd, prInfo) == cmd = "plan" /\ prInfo # << >>

\* The requirement check of executeProjectCommand: made for apply only, and only
\* with a pull request fetched; plan is not validated.
TsValidates(cmd, prInfo) == cmd = "apply" /\ prInfo # << >>

\* An executeProjectCommand that validates against the pull request's status of
\* the moment rather than against the value run fetched before the loop.
TsExecuteProjectCommand_ReadsRemote(s, project) ==
    LET requirements == RequirementsOf(project, command)
        failures == RequirementFailures(remote, requirements)
        gate == [pos |-> s.idx, project |-> project.name, read |-> remote,
                 ok |-> failures = << >>]
    IN  IF command = "apply" /\ pr # << >>
        THEN IF failures # << >>
             THEN TsFail([s EXCEPT !.gates = Append(@, gate)],
                         [kind |-> "requirements", detail |-> failures])
             ELSE [s EXCEPT !.gates = Append(@, gate), !.pc = "downloadPlanFile",
                            !.planFilePath = << >>]
        ELSE IF command = "apply"
             THEN [s EXCEPT !.pc = "downloadPlanFile", !.planFilePath = << >>]
             ELSE TsExecuteTerraform([s EXCEPT !.planFilePath = << >>], project)

\* executeProjectCommand up to its first await.
TsExecuteProjectCommand(s, project) ==
    LET requirements == RequirementsOf(project, command)
        failures == RequirementFailures(pr[1], requirements)
        gate == [pos |-> s.idx, project |-> project.name, read |-> pr[1],
                 ok |-> failures = << >>]
    IN  IF TsValidates(command, pr)
        THEN IF failures # << >>
             THEN TsFail([s EXCEPT !.gates = Append(@, gate)],
                         [kind |-> "requirements", detail |-> failures])
             ELSE [s EXCEPT !.gates = Append(@, gate), !.pc = "downloadPlanFile",
                            !.planFilePath = << >>]
        ELSE IF command = "apply"
             THEN [s EXCEPT !.pc = "downloadPlanFile", !.planFilePath = << >>]
             ELSE TsExecuteTerraform([s EXCEPT !.planFilePath = << >>], project)

\* The for loop of run at position i: the next project, or the end of run.
TsLoop(s, i) ==
    IF i > Len(targets)
    THEN [s EXCEPT !.pc = "done", !.status = "success", !.idx = i]
    ELSE TsExecuteProjectCommand([s EXCEPT !.idx = i], FindProject(config, targets[i]))

\* The project run is at.
CurrentProject == FindProject(config, targets[idx])

\* Start of run, up to `await validateTerraformInstalled()`.
TsRun ==
    /\ impl = "ts" /\ pc = "start"
    /\ IF eventName \notin {"issue_comment", "pull_request"}      \* validateEventType
       THEN Become(TsFail(Cur, [kind |-> "eventType", detail |-> <<eventName>>]))
       ELSE Become(Spawn(Cur, "", "version", "validateTerraformInstalled"))
    /\ UNCHANGED <<auxVars, impl, config, remote, eventName, projectFilter, requested, command, targets,
                   args, pr, fetches, setups>>

\* `terraform version` could not be run: validateTerraformInstalled throws.
TsTerraformMissing ==
    /\ impl = "ts" /\ pc = "validateTerraformInstalled"
    /\ Become(TsFail([Cur EXCEPT !.running = {}],
                     [kind |-> "terraformNotInstalled", detail |-> << >>]))
    /\ UNCHANGED <<auxVars, impl, config, remote, eventName, projectFilter, requested, command, targets,
                   args, pr, fetches, setups>>

\* The comment holds no terraform command: parseComment returns null, run returns.
TsNoCommand ==
    /\ impl = "ts" /\ pc = "validateTerraformInstalled"
    /\ eventName = "issue_comment"
    /\ Become([Cur EXCEPT !.running = {}, !.pc = "done", !.status = "skipped"])
    /\ UNCHANGED <<auxVars, impl, config, remote, eventName, projectFilter, requested, command, targets,
                   args, pr, fetches, setups>>

\* What run awaits once the command and the targets are known.
TsAfterResolve(s, cmd) ==
    [s EXCEPT !.pc = IF cmd = "apply" THEN "getPullRequestInfo" ELSE "setupTfcmt"]

\* Targets taken from the configuration, in its order, when names are requested.
TsTargets_ConfigurationOrder(requestedProjects, configured) ==
    IF Len(requestedProjects) > 0
    THEN SelectSeq(configured, LAMBDA n : n \in Range(requestedProjects))
    ELSE configured

\* No target at all when no name is requested.
TsTargets_NoneWhenEmpty(requestedProjects, configured) ==
    IF Len(requestedProjects) > 0 THEN requestedProjects ELSE << >>

\* targetProjectNames after the comment is parsed.
TsTargets(requestedProjects, configured) ==
    IF Len(requestedProjects) > 0 THEN requestedProjects ELSE configured

\* validateTerraformInstalled resolved; loadConfig, parseComment, validateProjectNames,
\* up to `await getPullRequestInfo(...)` (apply) or `await setupTfcmt()` (plan).
TsResolve ==
    /\ impl = "ts" /\ pc = "validateTerraformInstalled"
    /\ \E cmd \in {"plan", "apply"}, req \in RequestedLists, a \in ArgLists :
          LET configured == ConfiguredNames(config)
              error == IF Len(req) > 0
                       THEN ProjectNamesError(req, configured) ELSE << >>
              s == [Cur EXCEPT !.running = {}]
          IN  /\ eventName = "pull_request" => cmd = "plan" /\ req = << >> /\ a = << >>
              /\ requested' = req
              /\ IF error # << >>
                 THEN /\ Become(TsFail(s, error[1]))
                      /\ UNCHANGED <<command, targets, args>>
                 ELSE /\ targets' = TsTargets(req, configured)
                      /\ command' = cmd
                      /\ args' = a
                      /\ Become(TsAfterResolve(s, cmd))
    /\ UNCHANGED <<auxVars, impl, config, remote, eventName, projectFilter, pr,
                   fetches, setups>>

\* getPullRequestInfo resolved with the pull request as it is now, or rejected.
TsGetPullRequestInfo ==
    /\ impl = "ts" /\ pc = "getPullRequestInfo"
    /\ fetches' = fetches + 1
    /\ \/ /\ pr' = <<remote>>
          /\ Become([Cur EXCEPT !.pc = "setupTfcmt"])
       \/ /\ pr' = pr
          /\ Become(TsFail(Cur, [kind |-> "githubApi", detail |-> << >>]))
    /\ UNCHANGED <<auxVars, impl, config, remote, eventName, projectFilter, requested, command, targets,
                   args, setups>>

\* setupTfcmt resolved (the loop starts) or rejected.
TsSetupTfcmt ==
    /\ impl = "ts" /\ pc = "setupTfcmt"
    /\ setups' = setups + 1
    /\ \/ Become(TsLoop(Cur, 1))
       \/ Become(TsFail(Cur, [kind |-> "tfcmtSetup", detail |-> << >>]))
    /\ UNCHANGED <<auxVars, impl, config, remote, eventName, projectFilter, requested, command, targets,
                   args, pr, fetches>>

\* A downloadPlanFile whose rejection is not caught: it ends the run.
TsDownloadPlanFile_Throws ==
    /\ impl = "ts" /\ pc = "downloadPlanFile"
    /\ \E found \in BOOLEAN :
          IF found
          THEN Become(TsExecuteTerraform(
                         [Cur EXCEPT !.planFilePath =
                                        <<PlanFileIn(WorkingDir(CurrentProject.dir),
                                                     CurrentProject.name)>>],
                         CurrentProject))
          ELSE Become(TsFail(Cur, [kind |-> "downloadFailed", detail |-> << >>]))
    /\ UNCHANGED <<auxVars, impl, config, remote, eventName, projectFilter, requested, command,
                   targets, args, pr, fetches, setups>>

\* downloadPlanFile resolved with the plan file's path, or rejected (artifact not
\* found, download error, file absent from the payload): a warning, and apply goes on.
\* Whether an earlier run left an artifact for the project is the environment's.
TsDownloadPlanFile ==
    /\ impl = "ts" /\ pc = "downloadPlanFile"
    /\ \E found \in BOOLEAN :
          Become(TsExecuteTerraform(
                    [Cur EXCEPT !.planFilePath =
                                   IF found
                                   THEN <<PlanFileIn(WorkingDir(CurrentProject.dir),
                                                     CurrentProject.name)>>
                                   ELSE << >>],
                    CurrentProject))
    /\ UNCHANGED <<auxVars, impl, config, remote, eventName, projectFilter, requested, command, targets,
                   args, pr, fetches, setups>>

\* exec.exec('terraform init') resolved with an exit code (ignoreReturnCode: true):
\* exitCode is assigned and exec.exec(tfcmtPath, tfcmtArgs, options) is awaited.
TsInitDone ==
    /\ impl = "ts" /\ pc = "init"
    /\ \E code \in InitExitCodes :
          LET done == [pos |-> idx, project |-> CurrentProject.name, step |-> "init"]
              s == [Cur EXCEPT !.running = @ \ {done}, !.initExit = <<code>>,
                               !.stderr = Append(@, <<"init", CurrentProject.name, code>>)]
          IN  Become(Spawn(s, CurrentProject.name, command, "primary"))
    /\ UNCHANGED <<auxVars, impl, config, remote, eventName, projectFilter, requested, command, targets,
                   args, pr, fetches, setups>>

\* exec.exec rejected (the process could not be started): executeTerraform's catch
\* throws 'Failed to execute tfcmt/terraform: ...'.
TsExecRejected ==
    /\ impl = "ts" /\ pc \in {"init", "primary"}
    /\ Become(TsFail([Cur EXCEPT !.running = {}],
                     [kind |-> "execFailed", detail |-> << >>]))
    /\ UNCHANGED <<auxVars, impl, config, remote, eventName, projectFilter, requested, command, targets,
                   args, pr, fetches, setups>>

\* An exit-code error whose message leaves the captured stderr out.
ExitCodeError_WithoutStderr(cmd, captured) == [kind |-> "exitCode1", detail |-> << >>]

\* executeTerraform: new Error(`Terraform ${command} failed with exit code 1:\n${stderr}`)
ExitCodeError(cmd, captured) == [kind |-> "exitCode1", detail |-> captured]

\* executeTerraform: the exit codes of the primary operation that throw.
TsThrows(cmd, exitCode) == exitCode = 1

\* A hasChanges that forgets the command.
HasChanges_AnyCommand(cmd, exitCode) == exitCode = 2

\* executeTerraform: const hasChanges = command === 'plan' && exitCode === 2
HasChanges(cmd, exitCode) == cmd = "plan" /\ exitCode = 2

\* A save made only for plans that found changes.
SavesPlan_OnlyWithChanges(cmd, res) == cmd = "plan" /\ res.hasChanges

\* executeProjectCommand: if (command === 'plan') { ... if (result.planFilePath)
SavesPlan(cmd, res) == cmd = "plan" /\ res.planFilePath # << >>

\* The primary operation resolved with an exit code: executeTerraform throws or
\* returns; executeProjectCommand uploads the plan file (plan) or returns (apply),
\* and then run goes on with the next project.
TsPrimaryDone ==
    /\ impl = "ts" /\ pc = "primary"
    /\ \E code \in PrimaryExitCodes :
          LET name == CurrentProject.name
              done == [pos |-> idx, project |-> name, step |-> command]
              s == [Cur EXCEPT !.running = @ \ {done},
                               !.stderr = Append(@, <<command, name, code>>)]
              returned == [project |-> name, command |-> command, exitCode |-> code,
                           hasChanges |-> HasChanges(command, code),
                           planFilePath |-> IF command = "plan"
                                            THEN <<PlanFileIn(WorkingDir(CurrentProject.dir), name)>>
                                            ELSE << >>]
              save == [pos |-> idx, planFilePath |-> returned.planFilePath[1],
                       projectName |-> name]
          IN  IF TsThrows(command, code)
              THEN Become(TsFail(s, ExitCodeError(command, s.stderr)))
              ELSE IF SavesPlan(command, returned)
                   THEN Become([s EXCEPT !.result = <<returned>>,
                                         !.saves = Append(@, save),
                                         !.pc = "uploadPlanFile"])
                   ELSE Become(TsLoop([s EXCEPT !.result = <<returned>>], idx + 1))
    /\ UNCHANGED <<auxVars, impl, config, remote, eventName, projectFilter, requested, command, targets,
                   args, pr, fetches, setups>>

\* uploadPlanFile resolved (the artifact is stored): the next project.  Or it
\* rejected (plan file not found, upload error): the catch block is entered.  What
\* the artifact store then holds is followed by ArtUploadPlanFile.
TsUploadPlanFile ==
    /\ impl = "ts" /\ pc = "uploadPlanFile"
    /\ \/ Become(TsLoop(Cur, idx + 1))
       \/ Become([Cur EXCEPT !.pc = "uploadPlanFileFailed"])
    /\ UNCHANGED <<auxVars, impl, config, remote, eventName, projectFilter, requested, command, targets,
                   args, pr, fetches, setups>>

\* A catch block that throws the error of uploadPlanFile on: it ends the run.
TsUploadPlanFileFailed_Rethrows ==
    /\ impl = "ts" /\ pc = "uploadPlanFileFailed"
    /\ Become(TsFail(Cur, [kind |-> "uploadFailed", detail |-> << >>]))
    /\ UNCHANGED <<auxVars, impl, config, remote, eventName, projectFilter, requested, command, targets,
                   args, pr, fetches, setups>>

\* The catch block of executeProjectCommand around uploadPlanFile: core.warning,
\* executeProjectCommand returns and the loop of run goes to the next project.
TsUploadPlanFileFailed ==
    /\ impl = "ts" /\ pc = "uploadPlanFileFailed"
    /\ Become(TsLoop(Cur, idx + 1))
    /\ UNCHANGED <<auxVars, impl, config, remote, eventName, projectFilter, requested, command, targets,
                   args, pr, fetches, setups>>

\* ------------------------------------------------------------------ Go CLI

\* The characters of the strings whose prefixes matter.
Chars(str) ==
    CASE str = "."       -> <<".">>
      [] str = "tf/a"    -> <<"t", "f", "/", "a">>
      [] str = "tf/ab"   -> <<"t", "f", "/", "a", "b">>
      [] str = "tf/c"    -> <<"t", "f", "/", "c">>
      [] str = "tf/d"    -> <<"t", "f", "/", "d">>
      [] str = "tf/a/x"  -> <<"t", "f", "/", "a", "/", "x">>
      [] str = "tf/ab/x" -> <<"t", "f", "/", "a", "b", "/", "x">>
      [] str = "tf/c/x"  -> <<"t", "f", "/", "c", "/", "x">>
      [] str = "main"    -> <<"m", "a", "i", "n">>

\* GetChangedFiles: the changed files of the pull request.
ChangedFileLists == { << >>, <<"tf/a/x">>, <<"tf/ab/x">>, <<"tf/c/x">> }

\* event.HeadBranch
HeadBranch == "main"

\* The project filter of a comment: none, a name, a directory, an unknown name.
GoProjectFilters ==
    {""} \cup Range(SubSeq(ProjectNames, 1, NumProjects)) \cup {ProjectDirs[1], UnknownName}

\* strings.HasPrefix
HasPrefix(str, prefix) ==
    LET c == Chars(str)
        p == Chars(prefix)
    IN  Len(p) <= Len(c) /\ SubSeq(c, 1, Len(p)) = p

\* strings.Contains
Contains(str, substr) ==
    LET c == Chars(str)
        p == Chars(substr)
    IN  \E k \in 0..(Len(c) - Len(p)) : SubSeq(c, k + 1, k + Len(p)) = p

\* matchBranch (main.go); no configured pattern has a leading or trailing slash.
matchBranch(branch, pattern) ==
    IF pattern = "*" THEN TRUE ELSE Contains(branch, pattern)

\* filterProjects (main.go): whether the loop appends the project.
GoKeeps(project, filter, changedFiles, branch) ==
    /\ filter # "" => ~(project.name # filter /\ project.dir # filter)
    /\ project.branch # "" => matchBranch(branch, project.branch)
    /\ Len(changedFiles) > 0 =>
          \E k \in 1..Len(changedFiles) : HasPrefix(changedFiles[k], project.dir)

RECURSIVE filterProjects(_, _, _, _)
filterProjects(cfg, filter, changedFiles, branch) ==
    IF cfg = << >> THEN << >>
    ELSE (IF GoKeeps(Head(cfg), filter, changedFiles, branch) THEN <<Head(cfg)>> ELSE << >>)
         \o filterProjects(Tail(cfg), filter, changedFiles, branch)

\* Project.ValidateRequirements (pkg/config): TRUE when an error is returned.  The
\* requirement set is the project's list for the operation if present, else
\* {mergeable} for plan and {mergeable, approved} for apply; all must hold.
GoRequirementsNotMet(project, cmd, prInfo) ==
    LET explicit == IF cmd = "plan" THEN project.plan_requirements
                                    ELSE project.apply_requirements
        required == IF explicit # Undefined THEN Range(explicit)
                    ELSE IF cmd = "plan" THEN {"mergeable"}
                    ELSE {"mergeable", "approved"}
    IN  \/ "mergeable" \in required /\ ~prInfo.mergeable
        \/ "approved" \in required /\ ~prInfo.approved

\* run returns err: log.Fatalf("Error: %v", err)
GoFail(s, message) ==
    [s EXCEPT !.pc = "done", !.status = "failed", !.failure = <<message>>]

\* A loop of run that returns the error of ValidateRequirements instead of
\* continuing with the next project.
GoLoop_ReturnsOnUnmet(s, i, prInfo) ==
    IF i > Len(targets)
    THEN [s EXCEPT !.pc = "done", !.status = "success", !.idx = i]
    ELSE LET project == FindProject(config, targets[i])
             notMet == GoRequirementsNotMet(project, command, prInfo)
             gated == [s EXCEPT !.idx = i,
                                !.gates = Append(@, [pos |-> i, project |-> project.name,
                                                    read |-> prInfo, ok |-> ~notMet])]
         IN  IF notMet
             THEN GoFail(gated, [kind |-> "requirements", detail |-> << >>])
             ELSE Spawn([gated EXCEPT !.initExit = << >>], project.name, "init", "init")

\* The loop of run (main.go) from position i: projects whose requirements are not
\* met are logged and skipped; Execute starts with Init for the first one that passes.
RECURSIVE GoLoop(_, _, _)
GoLoop(s, i, prInfo) ==
    IF i > Len(targets)
    THEN [s EXCEPT !.pc = "done", !.status = "success", !.idx = i]
    ELSE LET project == FindProject(config, targets[i])
             notMet == GoRequirementsNotMet(project, command, prInfo)
             gated == [s EXCEPT !.idx = i,
                                !.gates = Append(@, [pos |-> i, project |-> project.name,
                                                    read |-> prInfo, ok |-> ~notMet])]
         IN  IF notMet
             THEN GoLoop(gated, i + 1, prInfo)
             ELSE Spawn([gated EXCEPT !.initExit = << >>], project.name, "init", "init")

\* Start of run: ParseCommand; no command returns nil; loadConfig; GetChangedFiles
\* is called.
GoRun ==
    /\ impl = "go" /\ pc = "start"
    /\ \E cmd \in {"", "plan", "apply"}, filter \in GoProjectFilters, a \in ArgLists :
          IF cmd = ""
          THEN /\ Become([Cur EXCEPT !.pc = "done", !.status = "skipped"])
               /\ UNCHANGED <<command, projectFilter, args>>
          ELSE /\ command' = cmd
               /\ projectFilter' = filter
               /\ args' = a
               /\ Become([Cur EXCEPT !.pc = "getChangedFiles"])
    /\ UNCHANGED <<auxVars, impl, config, remote, eventName, requested, targets, pr, fetches,
                   setups>>

\* GetChangedFiles returned: an error ends run; filterProjects; with no project left
\* a comment is posted and run returns nil; else GetPRInfo is called.
GoGetChangedFiles ==
    /\ impl = "go" /\ pc = "getChangedFiles"
    /\ \/ /\ Become(GoFail(Cur, [kind |-> "changedFiles", detail |-> << >>]))
          /\ UNCHANGED targets
       \/ \E changedFiles \in ChangedFileLists :
             LET projects == filterProjects(config, projectFilter, changedFiles, HeadBranch)
             IN  /\ targets' = ConfiguredNames(projects)
                 /\ IF Len(projects) = 0
                    THEN Become([Cur EXCEPT !.pc = "done", !.status = "noProjects"])
                    ELSE Become([Cur EXCEPT !.pc = "getPRInfo"])
    /\ UNCHANGED <<auxVars, impl, config, remote, eventName, command, projectFilter, requested,
                   args, pr, fetches, setups>>

\* GetPRInfo returned: an error ends run; else the loop over the projects starts.
GoGetPRInfo ==
    /\ impl = "go" /\ pc = "getPRInfo"
    /\ fetches' = fetches + 1
    /\ \/ /\ pr' = pr
          /\ Become(GoFail(Cur, [kind |-> "githubApi", detail |-> << >>]))
          /\ UNCHANGED targets
       \/ /\ pr' = <<remote>>
          /\ UNCHANGED targets
          /\ Become(GoLoop(Cur, 1, remote))
    /\ UNCHANGED <<auxVars, impl, config, remote, eventName, command, projectFilter, requested,
                   args, setups>>

\* Executor.Execute: Init returned.  A failed command ends Execute and run; else
\* Plan / Apply is run.
GoInitDone ==
    /\ impl = "go" /\ pc = "init"
    /\ \E code \in InitExitCodes :
          LET done == [pos |-> idx, project |-> CurrentProject.name, step |-> "init"]
              s == [Cur EXCEPT !.running = @ \ {done}, !.initExit = <<code>>]
          IN  IF code # 0
              THEN Become(GoFail(s, [kind |-> "terraformCommandFailed", detail |-> << >>]))
              ELSE Become(Spawn(s, CurrentProject.name, command, "primary"))
    /\ UNCHANGED <<auxVars, impl, config, remote, eventName, command, projectFilter, requested,
                   targets, args, pr, fetches, setups>>

\* Executor.Execute: Plan / Apply returned.  A failed command ends run; else the
\* loop goes on.
GoPrimaryDone ==
    /\ impl = "go" /\ pc = "primary"
    /\ \E code \in PrimaryExitCodes :
          LET done == [pos |-> idx, project |-> CurrentProject.name, step |-> command]
              s == [Cur EXCEPT !.running = @ \ {done}]
          IN  IF code # 0
              THEN Become(GoFail(s, [kind |-> "terraformCommandFailed", detail |-> << >>]))
              ELSE Become(GoLoop(s, idx + 1, pr[1]))
    /\ UNCHANGED <<auxVars, impl, config, remote, eventName, command, projectFilter, requested,
                   targets, args, pr, fetches, setups>>

\* ------------------------------------------------------------ environment

\* While a subprocess runs the pull request changes on the platform: a review is
\* submitted or dismissed.
RemoteChange ==
    /\ pc \in {"init", "primary"}
    /\ pr # << >>
    /\ remote' = [remote EXCEPT !.approved = ~@]
    /\ UNCHANGED <<auxVars, impl, config, eventName, pc, command, projectFilter, requested, targets,
                   args, pr, fetches, setups, idx, planFilePath, tfcmtArgs, saves,
                   initExit, stderr, running, calls, gates,
                   result, status, failure, setFailedCalls>>

\* ---------------------------------------------------------- specification

EventNames == {"issue_comment", "pull_request", "push"}

\* No function is applied on its own during a run.
NoFunction ==
    /\ fnIn = [fn |-> "none"] /\ fnOut = << >>
    /\ disk = {} /\ artifacts = {} /\ saved = << >> /\ loaded = << >>

Init ==
    /\ NoFunction
    /\ impl \in {"ts", "go"}
    /\ config \in Configs
    /\ remote \in PullRequestInfo
    /\ eventName \in (IF impl = "ts" THEN EventNames ELSE {"issue_comment"})
    /\ pc = "start"
    /\ command = "plan"
    /\ projectFilter = ""
    /\ requested = << >>
    /\ targets = << >>
    /\ args = << >>
    /\ pr = << >>
    /\ fetches = 0
    /\ setups = 0
    /\ idx = 0
    /\ planFilePath = << >>
    /\ tfcmtArgs = << >>
    /\ saves = << >>
    /\ initExit = << >>
    /\ stderr = << >>
    /\ running = {}
    /\ calls = << >>
    /\ gates = << >>
    /\ result = << >>
    /\ status = "running"
    /\ failure = << >>
    /\ setFailedCalls = 0

Next ==
    \/ TsRun
    \/ TsTerraformMissing
    \/ TsNoCommand
    \/ TsResolve
    \/ TsGetPullRequestInfo
    \/ TsSetupTfcmt
    \/ TsDownloadPlanFile
    \/ TsInitDone
    \/ TsExecRejected
    \/ TsPrimaryDone
    \/ TsUploadPlanFile
    \/ TsUploadPlanFileFailed
    \/ GoRun
    \/ GoGetChangedFiles
    \/ GoGetPRInfo
    \/ GoInitDone
    \/ GoPrimaryDone
    \/ RemoteChange

Spec == Init /\ [][Next]_vars

\* The runs in which every awaited call settles: a step of the program that is
\* possible is taken, whatever happens to the pull request meanwhile.
LiveSpec == Spec /\ WF_vars(Next /\ remote' = remote)

\* --------------------------------------------- functions on their own

\* The longest list of pass-through arguments.
MaxArgs == 1

\* Pass-through tokens: a terraform option, -auto-approve, the path of a plan file.
PassThroughTokens == { <<"-target=", "aws_instance.x">>, AutoApprove, PlanFileIn(Cwd, "other") }

\* The arguments executeTerraform is called with.
ExecuteTerraformInputs ==
    [fn : {"executeTerraform"},
     command : {"plan", "apply"},
     dir : {".", ProjectDirs[1]},
     projectName : {ProjectNames[1], ProjectNames[2]},
     additionalArgs : SeqsUpTo(PassThroughTokens, MaxArgs),
     downloaded : BOOLEAN]

\* executeProjectCommand: planFilePath is undefined or what downloadPlanFile returned.
SuppliedPlanFile(in) ==
    IF in.command = "apply" /\ in.downloaded
    THEN <<PlanFileIn(WorkingDir(in.dir), in.projectName)>> ELSE << >>

\* No run is going on while a function is applied on its own.
NoRun ==
    /\ impl = "ts" /\ config = << >> /\ remote = [mergeable |-> FALSE, approved |-> FALSE, isFork |-> FALSE]
    /\ eventName = "issue_comment" /\ pc = "done" /\ command = "plan"
    /\ projectFilter = "" /\ requested = << >> /\ targets = << >> /\ args = << >>
    /\ pr = << >> /\ fetches = 0 /\ setups = 0 /\ idx = 0
    /\ planFilePath = << >> /\ tfcmtArgs = << >> /\ saves = << >> /\ initExit = << >>
    /\ stderr = << >> /\ running = {} /\ calls = << >> /\ gates = << >>
    /\ result = << >> /\ status = "skipped" /\ failure = << >> /\ setFailedCalls = 0

FnInit ==
    /\ NoRun
    /\ fnIn \in ExecuteTerraformInputs
    /\ fnOut = << >>
    /\ disk = {} /\ artifacts = {} /\ saved = << >> /\ loaded = << >>

\* executeTerraform builds tfcmtArgs.
BuildTfcmtArgs ==
    /\ fnIn.fn = "executeTerraform" /\ fnOut = << >>
    /\ fnOut' = << TfcmtArgs(fnIn.command, WorkingDir(fnIn.dir), fnIn.projectName,
                             fnIn.additionalArgs, SuppliedPlanFile(fnIn)) >>
    /\ UNCHANGED <<fnIn, disk, artifacts, saved, loaded, runVars>>

FnNext ==
    \/ BuildTfcmtArgs

FnSpec == FnInit /\ [][FnNext]_vars

\* ------------------------------------------------ the plan artifacts

\* The projects whose plan files are saved and loaded: one in the directory the
\* process runs in, one in a subdirectory.
ArtifactProjects ==
    { [name |-> ProjectNames[1], dir |-> "."],
      [name |-> ProjectNames[2], dir |-> ProjectDirs[1]] }

\* What terraform plan may write into a plan file.
PlanContents == {"plan-1", "plan-2"}

Exists(files, path) == \E f \in files : f.path = path

ContentAt(files, path) == (CHOOSE f \in files : f.path = path).content

\* The file at path is written with content.
Write(files, path, content) ==
    { f \in files : f.path # path } \cup { [path |-> path, content |-> content] }

\* uploadArtifact(name, files, rootDirectory): the path a file has in the artifact
\* is its path relative to rootDirectory.
RelativeTo(root, path) == SubSeq(path, Len(root) + 2, Len(path))

\* An uploadPlanFile that does not verify that the file exists: a missing file is
\* uploaded as an empty one.
UploadPlanFile_Unverified(files, stored, planFile, projectName, clientOk) ==
    LET artifactName == ArtifactName(projectName)
        artifact == [name |-> artifactName,
                     files |-> { [path |-> RelativeTo(Cwd, planFile),
                                  content |-> IF Exists(files, planFile)
                                              THEN ContentAt(files, planFile) ELSE ""] }]
        accepted == clientOk /\ \A a \in stored : a.name # artifactName
    IN  IF accepted
        THEN [artifacts |-> stored \cup {artifact},
              outcome |-> [projectName |-> projectName, planFilePath |-> planFile,
                           ok |-> TRUE, error |-> "", clientCalled |-> TRUE]]
        ELSE [artifacts |-> stored,
              outcome |-> [projectName |-> projectName, planFilePath |-> planFile,
                           ok |-> FALSE, error |-> "Failed to upload plan file artifact",
                           clientCalled |-> TRUE]]

\* uploadPlanFile(planFile, projectName) on the files of the runner and the
\* store: the store after the call and the outcome.  clientOk: uploadArtifact
\* resolved.  An artifact name is taken once in a store.
UploadPlanFile(files, stored, planFile, projectName, clientOk) ==
    LET artifactName == ArtifactName(projectName)
        artifact == [name |-> artifactName,
                     files |-> { [path |-> RelativeTo(Cwd, planFile),
                                  content |-> ContentAt(files, planFile)] }]
        accepted == clientOk /\ \A a \in stored : a.name # artifactName
    IN  IF ~Exists(files, planFile)
        THEN [artifacts |-> stored,
              outcome |-> [projectName |-> projectName, planFilePath |-> planFile,
                           ok |-> FALSE, error |-> "Plan file not found",
                           clientCalled |-> FALSE]]
        ELSE IF accepted
        THEN [artifacts |-> stored \cup {artifact},
              outcome |-> [projectName |-> projectName, planFilePath |-> planFile,
                           ok |-> TRUE, error |-> "", clientCalled |-> TRUE]]
        ELSE [artifacts |-> stored,
              outcome |-> [projectName |-> projectName, planFilePath |-> planFile,
                           ok |-> FALSE, error |-> "Failed to upload plan file artifact",
                           clientCalled |-> TRUE]]

\* downloadArtifact(id, {path}): every file of the artifact is written under path.
Extract(files, artifact, downloadPath) ==
    { f \in files : \A g \in artifact.files : f.path # downloadPath \o <<"/">> \o g.path }
    \cup { [path |-> downloadPath \o <<"/">> \o g.path, content |-> g.content] :
             g \in artifact.files }

\* downloadPlanFile(projectName, downloadPath): the files of the runner after the
\* call and the outcome; artifact is what getArtifact found, content what the
\* returned path holds.
DownloadPlanFile(files, stored, projectName, downloadPath) ==
    LET artifactName == ArtifactName(projectName)
        found == { a \in stored : a.name = artifactName }
        artifact == CHOOSE a \in found : TRUE
        after == Extract(files, artifact, downloadPath)
        planFile == PlanFileIn(downloadPath, projectName)
    IN  IF found = {}
        THEN [disk |-> files,
              outcome |-> [projectName |-> projectName, artifact |-> << >>, ok |-> FALSE,
                           error |-> "Artifact not found", path |-> << >>,
                           content |-> << >>]]
        ELSE IF ~Exists(after, planFile)
        THEN [disk |-> after,
              outcome |-> [projectName |-> projectName, artifact |-> <<artifact>>,
                           ok |-> FALSE,
                           error |-> "Downloaded plan file not found at expected path",
                           path |-> << >>, content |-> << >>]]
        ELSE [disk |-> after,
              outcome |-> [projectName |-> projectName, artifact |-> <<artifact>>,
                           ok |-> TRUE, error |-> "", path |-> <<planFile>>,
                           content |-> <<ContentAt(after, planFile)>>]]

ArtInit ==
    /\ NoRun
    /\ fnIn = [fn |-> "none"] /\ fnOut = << >>
    /\ disk = {} /\ artifacts = {} /\ saved = << >> /\ loaded = << >>

\* terraform plan -out=<workingDir>/tfplan-<projectName> wrote the plan file.
ArtTerraformPlan ==
    /\ \E p \in ArtifactProjects, c \in PlanContents :
          disk' = Write(disk, PlanFileIn(WorkingDir(p.dir), p.name), c)
    /\ UNCHANGED <<fnIn, fnOut, artifacts, saved, loaded, runVars>>

\* executeProjectCommand (plan): uploadPlanFile(result.planFilePath, project.name)
ArtUploadPlanFile ==
    /\ \E p \in ArtifactProjects, clientOk \in BOOLEAN :
          LET r == UploadPlanFile(disk, artifacts, PlanFileIn(WorkingDir(p.dir), p.name),
                                  p.name, clientOk)
          IN  /\ artifacts' = r.artifacts
              /\ saved' = <<r.outcome>>
    /\ UNCHANGED <<fnIn, fnOut, disk, loaded, runVars>>

\* A later job starts on a runner of its own: the checkout holds no plan file.
ArtNewRunner ==
    /\ disk # {}
    /\ disk' = {}
    /\ UNCHANGED <<fnIn, fnOut, artifacts, saved, loaded, runVars>>

\* executeProjectCommand (apply): downloadPlanFile(project.name, workingDir)
ArtDownloadPlanFile ==
    /\ \E p \in ArtifactProjects :
          LET r == DownloadPlanFile(disk, artifacts, p.name, WorkingDir(p.dir))
          IN  /\ disk' = r.disk
              /\ loaded' = <<r.outcome>>
    /\ UNCHANGED <<fnIn, fnOut, artifacts, saved, runVars>>

ArtNext ==
    \/ ArtTerraformPlan
    \/ ArtUploadPlanFile
    \/ ArtNewRunner
    \/ ArtDownloadPlanFile

ArtifactSpec == ArtInit /\ [][ArtNext]_vars

\* ------------------------------------------------- the comment parser on its own

\* A string is the sequence of its parts: the words of a command, a space, a line
\* break, a quote, a comma, other text.
Whitespace == {" ", "\n"}

\* What `.` of a regular expression does not match.
LineTerminators == {"\n"}

\* (plan|apply)
Verbs == {"plan", "apply"}

\* String.prototype.trim
Trim(str) ==
    LET kept == {i \in 1..Len(str) : str[i] \notin Whitespace}
    IN  IF kept = {} THEN << >>
        ELSE SubSeq(str, CHOOSE i \in kept : \A j \in kept : i <= j,
                         CHOOSE i \in kept : \A j \in kept : j <= i)

\* trimmed.match(/^terraform\s+(plan|apply)(?:\s+(.+))?$/): << >> when there is no
\* match, else <<[command, argsString]>>.  verb: where (plan|apply) matches; rest:
\* where (.+) starts, Len + 1 when the optional group is left out.  \s+ is greedy.
TerraformCommandMatch(trimmed) ==
    LET n == Len(trimmed)
        matches == { m \in [verb : 3..n, rest : 1..(n + 1)] :
                       /\ trimmed[1] = "terraform"
                       /\ \A i \in 2..(m.verb - 1) : trimmed[i] \in Whitespace
                       /\ trimmed[m.verb] \in Verbs
                       /\ IF m.rest = n + 1
                          THEN m.verb = n
                          ELSE /\ m.rest > m.verb + 1
                               /\ \A i \in (m.verb + 1)..(m.rest - 1) :
                                      trimmed[i] \in Whitespace
                               /\ \A i \in m.rest..n : trimmed[i] \notin LineTerminators }
    IN  IF matches = {} THEN << >>
        ELSE LET m == CHOOSE x \in matches : \A y \in matches : y.rest <= x.rest
             IN  <<[command |-> trimmed[m.verb],
                    argsString |-> SubSeq(trimmed, m.rest, n)]>>

\* A tokenizer that splits at every space, quoted or not.
RECURSIVE TokenizeFrom_SplitsInQuotes(_, _, _, _, _)
TokenizeFrom_SplitsInQuotes(argsString, i, tokens, current, quoteChar) ==
    IF i > Len(argsString)
    THEN IF Len(current) > 0 THEN Append(tokens, current) ELSE tokens
    ELSE LET char == argsString[i]
         IN  IF char \in {"\"", "'"} /\ quoteChar = ""
             THEN TokenizeFrom_SplitsInQuotes(argsString, i + 1, tokens, current, char)
             ELSE IF char = quoteChar /\ quoteChar # ""
             THEN TokenizeFrom_SplitsInQuotes(argsString, i + 1, tokens, current, "")
             ELSE IF char = " "
             THEN TokenizeFrom_SplitsInQuotes(argsString, i + 1,
                      IF Len(current) > 0 THEN Append(tokens, current) ELSE tokens,
                      << >>, quoteChar)
             ELSE TokenizeFrom_SplitsInQuotes(argsString, i + 1, tokens,
                                              Append(current, char), quoteChar)

\* The loop of tokenizeArguments from position i; quoteChar = "" when inQuotes is
\* false.
RECURSIVE TokenizeFrom(_, _, _, _, _)
TokenizeFrom(argsString, i, tokens, current, quoteChar) ==
    IF i > Len(argsString)
    THEN IF Len(current) > 0 THEN Append(tokens, current) ELSE tokens
    ELSE LET char == argsString[i]
         IN  IF char \in {"\"", "'"} /\ quoteChar = ""
             THEN TokenizeFrom(argsString, i + 1, tokens, current, char)
             ELSE IF char = quoteChar /\ quoteChar # ""
             THEN TokenizeFrom(argsString, i + 1, tokens, current, "")
             ELSE IF char = " " /\ quoteChar = ""
             THEN TokenizeFrom(argsString, i + 1,
                               IF Len(current) > 0 THEN Append(tokens, current) ELSE tokens,
                               << >>, "")
             ELSE TokenizeFrom(argsString, i + 1, tokens, Append(current, char), quoteChar)

tokenizeArguments(argsString) == TokenizeFrom(argsString, 1, << >>, << >>, "")

\* String.prototype.split(','): the pieces between the commas, empty ones included.
RECURSIVE SplitFrom(_, _, _, _)
SplitFrom(str, i, parts, current) ==
    IF i > Len(str) THEN Append(parts, current)
    ELSE IF str[i] = ","
         THEN SplitFrom(str, i + 1, Append(parts, current), << >>)
         ELSE SplitFrom(str, i + 1, parts, Append(current, str[i]))

\* token.startsWith('-project=')
IsProjectToken(token) == Len(token) > 0 /\ token[1] = "-project="

\* A project list that keeps the empty elements.
ProjectList_KeepsEmpty(token) ==
    LET parts == SplitFrom(SubSeq(token, 2, Len(token)), 1, << >>, << >>)
    IN  [k \in 1..Len(parts) |-> Trim(parts[k])]

\* projectList.split(',').map((p) => p.trim()).filter((p) => p.length > 0)
ProjectList(token) ==
    LET parts == SplitFrom(SubSeq(token, 2, Len(token)), 1, << >>, << >>)
        trimmed == [k \in 1..Len(parts) |-> Trim(parts[k])]
    IN  SelectSeq(trimmed, LAMBDA p : Len(p) > 0)

\* A loop that keeps the first pass-through argument only.
RECURSIVE ParseTokens_FirstArgumentOnly(_, _, _)
ParseTokens_FirstArgumentOnly(tokens, projects, passThrough) ==
    IF Len(tokens) = 0 THEN [projects |-> projects, args |-> passThrough]
    ELSE LET token == Head(tokens)
         IN  IF IsProjectToken(token)
             THEN ParseTokens_FirstArgumentOnly(Tail(tokens), projects \o ProjectList(token), passThrough)
             ELSE ParseTokens_FirstArgumentOnly(Tail(tokens), projects,
                                             IF Len(passThrough) = 0 THEN <<token>> ELSE passThrough)

\* The loop of parseArguments over the tokens left.
RECURSIVE ParseTokens(_, _, _)
ParseTokens(tokens, projects, passThrough) ==
    IF Len(tokens) = 0 THEN [projects |-> projects, args |-> passThrough]
    ELSE LET token == Head(tokens)
         IN  IF IsProjectToken(token)
             THEN ParseTokens(Tail(tokens), projects \o ProjectList(token), passThrough)
             ELSE ParseTokens(Tail(tokens), projects, Append(passThrough, token))

parseArguments(argsString) ==
    IF Len(argsString) = 0 THEN [projects |-> << >>, args |-> << >>]
    ELSE ParseTokens(tokenizeArguments(argsString), << >>, << >>)

\* parseComment: << >> for null, else <<ParsedComment>>.
parseComment(commentBody) ==
    LET match == TerraformCommandMatch(Trim(commentBody))
    IN  IF Len(match) = 0 THEN << >>
        ELSE LET parsed == parseArguments(match[1].argsString)
             IN  <<[command |-> match[1].command,
                    projects |-> parsed.projects,
                    args |-> parsed.args]>>

MaxComment == 4

\* The parts of the comments tried.
CommentSymbols == {"terraform", "plan", "apply", " ", "\n", "x"}

\* What follows a command in a comment.
TailSymbols == {" ", "\n", "x"}

\* Comment bodies: every short text, and every command followed by a short text.
Comments ==
    SeqsUpTo(CommentSymbols, MaxComment)
        \cup { <<"terraform", " ", verb>> \o tail :
                  verb \in Verbs, tail \in SeqsUpTo(TailSymbols, MaxComment) }

ParseInit ==
    /\ NoRun
    /\ fnIn \in [fn : {"parseComment"}, commentBody : Comments]
    /\ fnOut = << >>
    /\ disk = {} /\ artifacts = {} /\ saved = << >> /\ loaded = << >>

\* parseComment is applied to the comment body.
ParseComment ==
    /\ fnIn.fn = "parseComment" /\ fnOut = << >>
    /\ fnOut' = << parseComment(fnIn.commentBody) >>
    /\ UNCHANGED <<fnIn, disk, artifacts, saved, loaded, runVars>>

ParseNext ==
    \/ ParseComment

ParseSpec == ParseInit /\ [][ParseNext]_vars

\* ---------------------------------------------- the argument parser on its own

MaxArgString == 5

\* The parts of the argument strings tried.
ArgSymbols == {"-project=", "a", ",", " ", "\"", "'"}

\* match[2] of parseComment: the text after the verb.
ArgStrings == SeqsUpTo(ArgSymbols, MaxArgString)

\* The targets of a run over two projects, one at the root of the repository.
ForwardTargets ==
    << [name |-> ProjectNames[1], dir |-> "."],
       [name |-> ProjectNames[2], dir |-> ProjectDirs[1]] >>

\* tfcmtArgs of executeTerraform for each target of a run that hands the parsed
\* arguments on: run -> executeProjectCommand -> executeTerraformWithTfcmt ->
\* executeTerraform, no plan file downloaded.
Forwarded(cmd, passThrough) ==
    [k \in 1..Len(ForwardTargets) |->
        TfcmtArgs(cmd, WorkingDir(ForwardTargets[k].dir), ForwardTargets[k].name,
                  passThrough, << >>)]

ArgInit ==
    /\ NoRun
    /\ fnIn \in [fn : {"parseArguments"}, argsString : ArgStrings]
    /\ fnOut = << >>
    /\ disk = {} /\ artifacts = {} /\ saved = << >> /\ loaded = << >>

\* parseArguments: const tokens = tokenizeArguments(argsString)
ArgTokenize ==
    /\ fnIn.fn = "parseArguments" /\ Len(fnOut) = 0
    /\ fnOut' = << [tokens |-> tokenizeArguments(fnIn.argsString)] >>
    /\ UNCHANGED <<fnIn, disk, artifacts, saved, loaded, runVars>>

\* parseArguments returns { projects, args }.
ArgParse ==
    /\ fnIn.fn = "parseArguments" /\ Len(fnOut) = 1
    /\ fnOut' = Append(fnOut, parseArguments(fnIn.argsString))
    /\ UNCHANGED <<fnIn, disk, artifacts, saved, loaded, runVars>>

\* The run executes the command for its targets with parsed.args.
ArgForward ==
    /\ fnIn.fn = "parseArguments" /\ Len(fnOut) = 2
    /\ \E cmd \in Verbs :
          fnOut' = Append(fnOut, [command |-> cmd,
                                  tfcmtArgs |-> Forwarded(cmd, fnOut[2].args)])
    /\ UNCHANGED <<fnIn, disk, artifacts, saved, loaded, runVars>>

ArgNext ==
    \/ ArgTokenize
    \/ ArgParse
    \/ ArgForward

ArgumentsSpec == ArgInit /\ [][ArgNext]_vars

\* ------------------------------------------ the requirement check on its own

MaxRequirements == 3

\* Requirement[] (types.ts): lists of 'mergeable' and 'approved'.
RequirementLists == SeqsUpTo({"mergeable", "approved"}, MaxRequirements)

ReqInit ==
    /\ NoRun
    /\ fnIn \in [fn : {"validateRequirements"}, pr : PullRequestInfo,
                 requirements : RequirementLists]
    /\ fnOut = << >>
    /\ disk = {} /\ artifacts = {} /\ saved = << >> /\ loaded = << >>

\* validateRequirements returns, or throws one Error listing the failures.
ValidateRequirements ==
    /\ fnIn.fn = "validateRequirements" /\ fnOut = << >>
    /\ LET failures == RequirementFailures(fnIn.pr, fnIn.requirements)
       IN  fnOut' = << [threw |-> Len(failures) > 0, reasons |-> failures] >>
    /\ UNCHANGED <<fnIn, disk, artifacts, saved, loaded, runVars>>

ReqNext ==
    \/ ValidateRequirements

RequirementsSpec == ReqInit /\ [][ReqNext]_vars

\* --------------------------------------------- the approval status on its own

MaxReviews == 3

\* What pulls.listReviews returns: reviews with a user (<<login>>, or << >> for a
\* review whose user is null) and a state.
Reviews ==
    SeqsUpTo([user : {<< >>, <<"alice">>, <<"bob">>},
              state : {"APPROVED", "CHANGES_REQUESTED", "COMMENTED"}], MaxReviews)

\* getPullRequestInfo: latestReviewsByUser after the loop over the reviews, a
\* function from logins to states.
RECURSIVE LatestReviewsByUser(_)
LatestReviewsByUser(reviews) ==
    IF Len(reviews) = 0 THEN << >>
    ELSE LET before == LatestReviewsByUser(SubSeq(reviews, 1, Len(reviews) - 1))
             review == reviews[Len(reviews)]
         IN  IF Len(review.user) > 0
             THEN [login \in DOMAIN before \cup {review.user[1]} |->
                      IF login = review.user[1] THEN review.state ELSE before[login]]
             ELSE before

\* An approval status that looks at every review, not at the last one of each user.
Approved_EveryReview(reviews) ==
    /\ \E k \in 1..Len(reviews) : reviews[k].state = "APPROVED"
    /\ ~\E k \in 1..Len(reviews) : reviews[k].state = "CHANGES_REQUESTED"

\* getPullRequestInfo: approved = hasApproval && !hasChangesRequested
Approved(reviews) ==
    LET latest == LatestReviewsByUser(reviews)
        hasApproval == \E login \in DOMAIN latest : latest[login] = "APPROVED"
        hasChangesRequested == \E login \in DOMAIN latest : latest[login] = "CHANGES_REQUESTED"
    IN  hasApproval /\ ~hasChangesRequested

ReviewInit ==
    /\ NoRun
    /\ fnIn \in [fn : {"getPullRequestInfo"}, reviews : Reviews]
    /\ fnOut = << >>
    /\ disk = {} /\ artifacts = {} /\ saved = << >> /\ loaded = << >>

\* getPullRequestInfo derives approved from the reviews returned.
DeriveApproval ==
    /\ fnIn.fn = "getPullRequestInfo" /\ fnOut = << >>
    /\ fnOut' = << [approved |-> Approved(fnIn.reviews)] >>
    /\ UNCHANGED <<fnIn, disk, artifacts, saved, loaded, runVars>>

ReviewNext ==
    \/ DeriveApproval

ReviewSpec == ReviewInit /\ [][ReviewNext]_vars

\* ------------------------------------------------ the project filter on its own

MaxChanged == 2

\* config.Project values: a project at the root of the repository and two whose
\* directories share a prefix.
FilterProjects ==
    { [name |-> "root",          dir |-> ".",            branch |-> ""],
      [name |-> ProjectNames[1], dir |-> ProjectDirs[1], branch |-> ""],
      [name |-> ProjectNames[2], dir |-> ProjectDirs[2], branch |-> ""] }

\* The arguments of filterProjects: cfg.Projects, the project filter of the comment,
\* the changed files of the pull request.
FilterInputs ==
    [fn : {"filterProjects"},
     projects : SeqsUpTo(FilterProjects, 2) \ {<< >>},
     projectFilter : {"", ProjectDirs[1]},
     changedFiles : SeqsUpTo({"tf/a/x", "tf/ab/x", "tf/c/x"}, MaxChanged)]

FilterInit ==
    /\ NoRun
    /\ fnIn \in FilterInputs
    /\ fnOut = << >>
    /\ disk = {} /\ artifacts = {} /\ saved = << >> /\ loaded = << >>

\* filterProjects returns the projects kept.
FilterProjectsApplied ==
    /\ fnIn.fn = "filterProjects" /\ fnOut = << >>
    /\ fnOut' = << filterProjects(fnIn.projects, fnIn.projectFilter, fnIn.changedFiles,
                                  HeadBranch) >>
    /\ UNCHANGED <<fnIn, disk, artifacts, saved, loaded, runVars>>

FilterNext ==
    \/ FilterProjectsApplied

FilterSpec == FilterInit /\ [][FilterNext]_vars

\* ------------------------------------------------------------ properties

\* A requirement holds on a pull-request status.
Holds(requirement, prInfo) ==
    IF requirement = "mergeable" THEN prInfo.mergeable ELSE prInfo.approved

\* The requirement set of a project for an operation: the explicit list when the
\* project has one, else {mergeable} for plan and {mergeable, approved} for apply.
RequirementSet(project, cmd) ==
    LET explicit == IF cmd = "plan" THEN project.plan_requirements
                                    ELSE project.apply_requirements
    IN  IF explicit # Undefined THEN Range(explicit)
        ELSE IF cmd = "plan" THEN {"mergeable"} ELSE {"mergeable", "approved"}

\* The positions in calls of the invocations of the tool for a project.
ProjectCalls == {k \in 1..Len(calls) : calls[k].step \in {"init", "plan", "apply"}}

\* The status the gates of this run read: the fetched one, else the actual one.
StatusRead == IF pr # << >> THEN pr[1] ELSE remote

\* The first name of a list that is not among the configured ones.
FirstUnmatched(names, configured) ==
    names[CHOOSE k \in 1..Len(names) :
              /\ names[k] \notin Range(configured)
              /\ \A j \in 1..(k - 1) : names[j] \in Range(configured)]

\* C1: in a run of the TypeScript action whose command is apply and whose fetched
\* pull-request status has isFork true, the tool is never invoked for any project,
\* whatever requirements the projects configure.
ForkProtection ==
    (impl = "ts" /\ command = "apply" /\ pr # << >> /\ pr[1].isFork) => ProjectCalls = {}

PlanGating ==
    (command = "plan" /\ targets # << >>) =>
        \A k \in ProjectCalls :
            \A r \in RequirementSet(FindProject(config, calls[k].project), "plan") :
                Holds(r, StatusRead)

ExecutionFailed ==
    /\ failure # << >>
    /\ failure[1].kind \in {"exitCode1", "execFailed", "terraformCommandFailed"}

\* The run is over, reported failed, and no project after the current one was or
\* will be handed to the tool.
AbortedAtCurrentProject ==
    /\ status = "failed"
    /\ impl = "ts" => setFailedCalls = 1
    /\ running = {}
    /\ ~ENABLED Next
    /\ \A k \in ProjectCalls : calls[k].pos <= idx

UnknownProjectAborts ==
    (impl = "ts" /\ \E k \in 1..Len(requested) : requested[k] \notin Range(ConfiguredNames(config)))
        => /\ status = "failed" /\ setFailedCalls = 1
           /\ failure[1].kind = "projectNotFound"
           /\ failure[1].detail = <<FirstUnmatched(requested, ConfiguredNames(config))>>
                                      \o ConfiguredNames(config)
           /\ fetches = 0 /\ setups = 0 /\ pr = << >>
           /\ ProjectCalls = {}
           /\ ~ENABLED Next

\* C6 happens: the comment names a configured project first and an unknown one second.
UnknownProjectAbortsWitness ==
    /\ impl = "ts" /\ requested = <<ProjectNames[1], UnknownName>>
    /\ status = "failed"

SingleStatusSnapshot ==
    /\ fetches <= 1
    /\ pc \in {"getPullRequestInfo", "getPRInfo"} =>
           fetches = 0 /\ gates = << >> /\ ProjectCalls = {}
    /\ gates # << >> =>
           /\ fetches = 1 /\ pr # << >>
           /\ \A g \in 1..Len(gates) : gates[g].read = pr[1]

\* C8 happens: the second project is checked after the pull request changed.
SingleStatusSnapshotWitness ==
    /\ impl = "ts" /\ Len(gates) = 2
    /\ remote # pr[1]
    /\ gates[2].ok

\* C9: init runs before the primary operation and guards it: the operation is
\* started only after the project's init succeeded, and a failed init fails the
\* project's execution.
InitGuardsPrimary ==
    /\ \A k \in ProjectCalls :
          calls[k].step # "init" =>
              k > 1 /\ calls[k - 1] = [calls[k] EXCEPT !.step = "init"]
    /\ pc = "primary" => initExit = <<0>>
    /\ (initExit # << >> /\ initExit[1] # 0) => status = "failed"

\* C10: a plan succeeds only with exit code 0 or 2: a result is returned for these
\* alone, and every other exit code fails the run.
PlanExitCodeRule ==
    impl = "ts" =>
        /\ (result # << >> /\ result[1].command = "plan") =>
               result[1].exitCode \in {0, 2}
        /\ \A k \in 1..Len(stderr) :
               (stderr[k][1] = "plan" /\ stderr[k][3] \notin {0, 2}) => status = "failed"

\* C11: an apply succeeds only with exit code 0: executeTerraform returns a result
\* (and 'Apply completed successfully' is logged) for exit code 0 alone, and every
\* other exit code of apply fails the run.
ApplyExitCodeRule ==
    impl = "ts" =>
        /\ (result # << >> /\ result[1].command = "apply") => result[1].exitCode = 0
        /\ \A k \in 1..Len(stderr) :
               (stderr[k][1] = "apply" /\ stderr[k][3] # 0) => status = "failed"

\* C12: the result of executeTerraform has hasChanges true exactly when the command
\* is plan and the exit code is 2, and exit code 2 of a plan raises no error; for
\* apply hasChanges is false whatever the exit code.
HasChangesRule ==
    impl = "ts" =>
        /\ result # << >> =>
               /\ result[1].hasChanges <=>
                      (result[1].command = "plan" /\ result[1].exitCode = 2)
               /\ result[1].command = "apply" => ~result[1].hasChanges
        /\ (command = "plan" /\ stderr # << >> /\ stderr[Len(stderr)][1] = "plan"
              /\ stderr[Len(stderr)][3] = 2)
               => (result # << >> /\ result[1].hasChanges /\ status # "failed")

\* C12 happens: an apply returned with exit code 2 and its result has no changes.
HasChangesRuleWitness ==
    /\ impl = "ts" /\ result # << >>
    /\ result[1].command = "apply" /\ result[1].exitCode = 2
    /\ ~result[1].hasChanges

\* The tokens that are paths of plan files.
PlanPathTokens ==
    { PlanFileIn(WorkingDir(d), n) : d \in {".", ProjectDirs[1]},
                                     n \in {ProjectNames[1], ProjectNames[2]} }
    \cup { PlanFileIn(Cwd, "other") }

\* executeTerraform was applied and built the arguments out.
Built(out) == fnIn.fn = "executeTerraform" /\ fnOut = <<out>>

\* The positions of out that hold the pass-through arguments, copied after the
\* six leading tokens and the one chosen for the command.
PassThroughPositions == 8..(7 + Len(fnIn.additionalArgs))

\* C13 (as stated): an apply given a plan file path has exactly that path among
\* its arguments and not -auto-approve; an apply given none has -auto-approve and
\* no plan path; a plan has neither, and has -out=<workingDir>/tfplan-<projectName>.
ApplyTargetSelection ==
    \A out \in Range(fnOut) :
        Built(out) =>
            LET supplied == SuppliedPlanFile(fnIn)
                paths == Range(out) \cap PlanPathTokens
            IN  /\ (fnIn.command = "apply" /\ supplied # << >>) =>
                       paths = {supplied[1]} /\ AutoApprove \notin Range(out)
                /\ (fnIn.command = "apply" /\ supplied = << >>) =>
                       paths = {} /\ AutoApprove \in Range(out)
                /\ fnIn.command = "plan" =>
                       /\ paths = {} /\ AutoApprove \notin Range(out)
                       /\ (<<"-out=">> \o PlanFileIn(WorkingDir(fnIn.dir), fnIn.projectName))
                              \in Range(out)

\* C13 (amended): the same, for the arguments executeTerraform adds itself; the
\* pass-through arguments of the comment are copied unchanged after them, so
\* -auto-approve or a path is among the arguments as well when the comment gives it.
ApplyTargetSelectionOwnArguments ==
    \A out \in Range(fnOut) :
        Built(out) =>
            LET supplied == SuppliedPlanFile(fnIn)
                own == { out[i] : i \in (1..Len(out)) \ PassThroughPositions }
                paths == own \cap PlanPathTokens
            IN  /\ Len(out) = 9 + Len(fnIn.additionalArgs)
                /\ \A i \in PassThroughPositions : out[i] = fnIn.additionalArgs[i - 7]
                /\ (fnIn.command = "apply" /\ supplied # << >>) =>
                       paths = {supplied[1]} /\ AutoApprove \notin own
                /\ (fnIn.command = "apply" /\ supplied = << >>) =>
                       paths = {} /\ AutoApprove \in own
                /\ fnIn.command = "plan" =>
                       /\ paths = {} /\ AutoApprove \notin own
                       /\ (<<"-out=">> \o PlanFileIn(WorkingDir(fnIn.dir), fnIn.projectName))
                              \in own

\* C13 happens: an apply with a downloaded plan file and a comment that passes
\* -auto-approve through.
ApplyTargetSelectionWitness ==
    /\ fnIn.fn = "executeTerraform" /\ fnOut # << >>
    /\ fnIn.command = "apply" /\ fnIn.downloaded
    /\ fnIn.additionalArgs = <<AutoApprove>>
    /\ AutoApprove \in Range(fnOut[1])

\* C14: downloadPlanFile for a project whose plan file was saved returns a path to
\* a file with the content that was saved, whatever the project's directory; for
\* a name never saved it fails with an artifact-not-found error.
ArtifactRoundTrip ==
    \A o \in Range(loaded) :
        /\ o.artifact # << >> =>
               /\ o.ok
               /\ \E f \in o.artifact[1].files : o.content = <<f.content>>
        /\ o.artifact = << >> => ~o.ok /\ o.error = "Artifact not found"

\* C17: uploadPlanFile called for a plan file that does not exist fails with
\* 'Plan file not found', the artifact client is not called and the store stays
\* as it is.
SaveOfMissingFile ==
    [][ (saved' # saved /\ ~Exists(disk, saved'[1].planFilePath))
            => /\ ~saved'[1].ok
               /\ saved'[1].error = "Plan file not found"
               /\ ~saved'[1].clientCalled
               /\ artifacts' = artifacts ]_vars

\* C17 happens: with an artifact in the store, a save of a missing file failed.
SaveOfMissingFileWitness ==
    /\ saved # << >> /\ saved[1].error = "Plan file not found"
    /\ ~Exists(disk, saved[1].planFilePath)
    /\ artifacts # {}

PlansReturned ==
    { p \in 1..Len(targets) :
          \/ p < idx
          \/ p = idx /\ result # << >> /\ result[1].project = targets[p]
                     /\ pc \notin {"init", "primary"} }

\* C16: a save of <workingDir>/tfplan-<projectName> is attempted for every plan that
\* completed without an execution error, changes or not, before the next project
\* starts, once; none is attempted after a plan that raised an error or in an apply.
PlanSavedAfterEverySuccessfulPlan ==
    impl = "ts" =>
        /\ command = "apply" => saves = << >>
        /\ command = "plan" =>
               /\ { saves[k].pos : k \in 1..Len(saves) } = PlansReturned
               /\ \A k \in 1..Len(saves) :
                      /\ saves[k].projectName = targets[saves[k].pos]
                      /\ saves[k].planFilePath =
                             PlanFileIn(WorkingDir(FindProject(config, targets[saves[k].pos]).dir),
                                        targets[saves[k].pos])
                      /\ \A j \in 1..Len(saves) : saves[j].pos = saves[k].pos => j = k

\* C16 happens: the plan of the second project found no changes (exit code 0) and
\* its plan file is being saved, after the first project's.
PlanSavedAfterEverySuccessfulPlanWitness ==
    /\ impl = "ts" /\ command = "plan" /\ pc = "uploadPlanFile" /\ idx = 2
    /\ result[1].exitCode = 0
    /\ Len(saves) = 2

\* run of the TypeScript action has resolved its targets.
TargetsResolved ==
    /\ impl = "ts"
    /\ pc \notin {"start", "validateTerraformInstalled"}
    /\ status # "skipped"
    /\ \A m \in Range(failure) :
           m.kind \notin {"eventType", "terraformNotInstalled", "projectNotFound"}

\* C18: when the comment names projects that are all configured, the targets are
\* the requested names in the order of the comment, and the projects are executed
\* in that order.
RequestedOrderPreserved ==
    (TargetsResolved /\ requested # << >>) =>
        LET made == ProjectCalls
        IN  /\ targets = requested
            /\ \A k \in made :
                   /\ calls[k].project = requested[calls[k].pos]
                   /\ \A j \in made : j < k => calls[j].pos <= calls[k].pos

\* C18 happens: the comment names the second project and then the first, and the
\* first project's operation runs after the second's.
RequestedOrderPreservedWitness ==
    /\ impl = "ts" /\ requested = <<ProjectNames[2], ProjectNames[1]>>
    /\ pc = "primary" /\ idx = 2
    /\ targets[2] = ProjectNames[1]

\* C19: when the comment names no project, the targets are all the configured
\* projects, each once, in the order of the configuration.
EmptyRequestMeansAll ==
    (TargetsResolved /\ requested = << >>) =>
        /\ Len(targets) = Len(config)
        /\ \A i \in 1..Len(config) : targets[i] = config[i].name
        /\ \A i, j \in 1..Len(targets) : targets[i] = targets[j] => i = j

\* C19 happens: with no project named, the last configured project is reached.
EmptyRequestMeansAllWitness ==
    /\ TargetsResolved /\ requested = << >> /\ eventName = "issue_comment"
    /\ pc = "primary" /\ idx = Len(config)

\* Token names the project: it is its name or its directory.
IsKeyOf(token, project) == token = project.name \/ token = project.dir

\* C20: a requested token that is the name or the directory of a configured
\* project resolves to that project and is not rejected as unknown.
NameOrDirectoryKey ==
    /\ impl = "ts" =>
           ((requested # << >>
               /\ \A k \in 1..Len(requested) :
                      \E i \in 1..Len(config) : IsKeyOf(requested[k], config[i]))
            => \A m \in Range(failure) : m.kind # "projectNotFound")
    /\ (impl = "go" /\ projectFilter # "") =>
           \A k \in 1..Len(targets) : IsKeyOf(projectFilter, FindProject(config, targets[k]))

\* The trimmed comment starts with the marker word and a verb: terraform, white
\* space, then plan or apply as a whole word.  The position of the verb, or 0.
VerbPosition(trimmed) ==
    LET found == { v \in 3..Len(trimmed) :
                     /\ trimmed[1] = "terraform"
                     /\ \A i \in 2..(v - 1) : trimmed[i] \in Whitespace
                     /\ trimmed[v] \in Verbs
                     /\ v < Len(trimmed) => trimmed[v + 1] \in Whitespace }
    IN  IF found = {} THEN 0 ELSE CHOOSE v \in found : TRUE

\* C21 (as stated): parseComment returns null exactly when the trimmed comment does
\* not start with the marker word terraform followed by the verb plan or apply;
\* every comment that does, text on later lines included, yields the verb written.
CommandRecognition ==
    (fnIn.fn = "parseComment" /\ fnOut # << >>) =>
        LET trimmed == Trim(fnIn.commentBody)
            verb == VerbPosition(trimmed)
        IN  /\ Len(fnOut[1]) = 0 <=> verb = 0
            /\ verb # 0 => fnOut[1][1].command = trimmed[verb]

\* The k-th comma-separated element of csv: the parts that have k - 1 commas before
\* them.
CsvElement(csv, k) ==
    LET at == { i \in 1..Len(csv) :
                  /\ csv[i] # ","
                  /\ Cardinality({ j \in 1..(i - 1) : csv[j] = "," }) = k - 1 }
    IN  IF at = {} THEN << >>
        ELSE SubSeq(csv, CHOOSE i \in at : \A j \in at : i <= j,
                         CHOOSE i \in at : \A j \in at : j <= i)

\* The comma-separated elements of csv, each trimmed, the empty ones removed.
CsvElements(csv) ==
    LET commas == Cardinality({ i \in 1..Len(csv) : csv[i] = "," })
    IN  SelectSeq([k \in 1..(commas + 1) |-> Trim(CsvElement(csv, k))],
                  LAMBDA e : e # << >>)

\* The elements of all -project tokens, token after token.
RECURSIVE RequestedBy(_)
RequestedBy(tokens) ==
    IF tokens = << >> THEN << >>
    ELSE (IF IsProjectToken(Head(tokens))
          THEN CsvElements(SubSeq(Head(tokens), 2, Len(Head(tokens))))
          ELSE << >>) \o RequestedBy(Tail(tokens))

\* C22: the requested-project list is, for the -project=<csv> tokens, the
\* comma-separated elements of <csv>, each trimmed, the empty ones removed, the order
\* kept; -project= alone requests nothing; no -project token is among the
\* pass-through arguments.
ProjectListExtraction ==
    (fnIn.fn = "parseArguments" /\ Len(fnOut) >= 2) =>
        LET tokens == fnOut[1].tokens
            parsed == fnOut[2]
        IN  /\ parsed.projects = RequestedBy(tokens)
            /\ \A k \in 1..Len(parsed.projects) :
                   /\ parsed.projects[k] # << >>
                   /\ \A i \in 1..Len(parsed.projects[k]) : parsed.projects[k][i] # ","
            /\ tokens = << <<"-project=">> >> => parsed.projects = << >>
            /\ \A k \in 1..Len(parsed.args) : parsed.args[k][1] # "-project="

\* C22 happens: -project=a,,a requests a and a; the empty element is dropped.
ProjectListExtractionWitness ==
    /\ fnIn.fn = "parseArguments" /\ Len(fnOut) >= 2
    /\ fnIn.argsString = <<"-project=", "a", ",", ",", "a">>
    /\ fnOut[2].projects = << <<"a">>, <<"a">> >>
    /\ fnOut[2].args = << >>

\* The pass-through tokens: those that are no -project token, in their order.
PassThroughOf(tokens) == SelectSeq(tokens, LAMBDA t : ~IsProjectToken(t))

\* The sequence part occurs in the sequence whole, contiguously and in order.
OccursIn(part, whole) ==
    \E offset \in 0..(Len(whole) - Len(part)) :
        SubSeq(whole, offset + 1, offset + Len(part)) = part

\* C23: every argument token other than the -project tokens is in
\* ParsedComment.args, in the original relative order, and that sequence is found
\* unmodified and contiguous in the tool's argument list for every project executed.
PassThroughForwarded ==
    /\ (fnIn.fn = "parseArguments" /\ Len(fnOut) >= 2) =>
           fnOut[2].args = PassThroughOf(fnOut[1].tokens)
    /\ (fnIn.fn = "parseArguments" /\ Len(fnOut) = 3) =>
           \A k \in 1..Len(fnOut[3].tfcmtArgs) :
               OccursIn(PassThroughOf(fnOut[1].tokens), fnOut[3].tfcmtArgs[k])

\* C23 happens: two pass-through arguments around a -project token reach both
\* projects of an apply.
PassThroughForwardedWitness ==
    /\ fnIn.fn = "parseArguments" /\ Len(fnOut) = 3
    /\ fnIn.argsString = <<"a", " ", "-project=", " ", "a">>
    /\ fnOut[2].args = << <<"a">>, <<"a">> >>
    /\ fnOut[3].command = "apply"
    /\ Len(fnOut[3].tfcmtArgs) = 2

\* The quote a part at position i is read in: "" outside quotes, else the quote
\* character that opened.
RECURSIVE OpenQuoteBefore(_, _)
OpenQuoteBefore(str, i) ==
    IF i = 1 THEN ""
    ELSE LET open == OpenQuoteBefore(str, i - 1)
             before == str[i - 1]
         IN  IF open = "" THEN (IF before \in {"\"", "'"} THEN before ELSE "")
             ELSE IF before = open THEN "" ELSE open

\* The part at i is an enclosing quote character: it opens or closes a quote.
IsEnclosingQuote(str, i) ==
    IF OpenQuoteBefore(str, i) = "" THEN str[i] \in {"\"", "'"}
    ELSE str[i] = OpenQuoteBefore(str, i)

\* The part at i is a space outside quotes.
IsSeparator(str, i) == OpenQuoteBefore(str, i) = "" /\ str[i] = " "

\* The positions of the parts that belong to tokens, and the k-th of them.
TokenPositions(str) ==
    { i \in 1..Len(str) : ~IsEnclosingQuote(str, i) /\ ~IsSeparator(str, i) }

NthTokenPosition(positions, k) ==
    CHOOSE i \in positions : Cardinality({ j \in positions : j <= i }) = k

RECURSIVE Flattened(_)
Flattened(tokens) ==
    IF tokens = << >> THEN << >> ELSE Head(tokens) \o Flattened(Tail(tokens))

\* C24: a quoted substring is not split at the spaces it contains, the enclosing
\* quote characters are removed, a quote character of the other kind inside an open
\* quote is kept; outside quotes each run of spaces separates tokens and no token is
\* empty.
QuoteAwareTokenization ==
    (fnIn.fn = "parseArguments" /\ Len(fnOut) = 1) =>
        LET str == fnIn.argsString
            tokens == fnOut[1].tokens
            positions == TokenPositions(str)
            count == Cardinality(positions)
            nth == [k \in 1..count |-> NthTokenPosition(positions, k)]
            separators == { i \in 1..Len(str) : IsSeparator(str, i) }
            starts == { 1 + Len(Flattened(SubSeq(tokens, 1, t - 1))) : t \in 1..Len(tokens) }
        IN  /\ \A t \in 1..Len(tokens) : tokens[t] # << >>
            /\ Flattened(tokens) = [k \in 1..count |-> str[nth[k]]]
            /\ \A k \in 1..count :
                   k \in starts <=>
                       \/ k = 1
                       \/ \E i \in separators : nth[k - 1] < i /\ i < nth[k]

\* C24 happens: "a a" in double quotes is one token with its space and without the
\* quotes.
QuoteAwareTokenizationWitness ==
    /\ fnIn.fn = "parseArguments" /\ Len(fnOut) >= 1
    /\ fnIn.argsString = <<"\"", "a", " ", "a", "\"">>
    /\ fnOut[1].tokens = << <<"a", " ", "a">> >>

\* The reason validateRequirements gives for a requirement that is not met.
ReasonFor(requirement) ==
    IF requirement = "mergeable" THEN "PR is not mergeable (conflicts or failing checks)"
    ELSE "PR is not approved"

\* C25: validateRequirements evaluates every requirement of the list; if any is
\* unmet it raises one error with one reason per unmet requirement, all of them, in
\* list order; it raises none exactly when every listed requirement holds, as for
\* the empty list.
FailuresAccumulated ==
    (fnIn.fn = "validateRequirements" /\ fnOut # << >>) =>
        LET unmet == SelectSeq(fnIn.requirements, LAMBDA r : ~Holds(r, fnIn.pr))
            out == fnOut[1]
        IN  /\ out.threw <=> \E k \in 1..Len(fnIn.requirements) :
                                 ~Holds(fnIn.requirements[k], fnIn.pr)
            /\ Len(out.reasons) = Len(unmet)
            /\ \A k \in 1..Len(unmet) : out.reasons[k] = ReasonFor(unmet[k])
            /\ fnIn.requirements = << >> => ~out.threw

\* C25 happens: neither requirement of [approved, mergeable] is met and the error
\* gives both reasons, in that order.
FailuresAccumulatedWitness ==
    /\ fnIn.fn = "validateRequirements" /\ fnOut # << >>
    /\ fnIn.requirements = <<"approved", "mergeable">>
    /\ ~fnIn.pr.approved /\ ~fnIn.pr.mergeable
    /\ fnOut[1].threw
    /\ fnOut[1].reasons = <<ReasonFor("approved"), ReasonFor("mergeable")>>

\* The reviewers of a review sequence, and the state of a reviewer's last review.
Reviewers(reviews) ==
    { reviews[k].user[1] : k \in { j \in 1..Len(reviews) : reviews[j].user # << >> } }

LastReviewOf(reviews, login) ==
    LET own == { k \in 1..Len(reviews) : reviews[k].user = <<login>> }
    IN  reviews[CHOOSE k \in own : \A j \in own : j <= k].state

\* C26: approved is true if and only if, keeping for each reviewer only the last
\* review in the returned sequence, at least one reviewer's last review is APPROVED
\* and no reviewer's last review is CHANGES_REQUESTED; with no reviews it is false.
ApprovalDerivation ==
    (fnIn.fn = "getPullRequestInfo" /\ fnOut # << >>) =>
        LET reviews == fnIn.reviews
        IN  /\ fnOut[1].approved <=>
                   /\ \E r \in Reviewers(reviews) : LastReviewOf(reviews, r) = "APPROVED"
                   /\ \A r \in Reviewers(reviews) :
                          LastReviewOf(reviews, r) # "CHANGES_REQUESTED"
            /\ reviews = << >> => ~fnOut[1].approved

\* C26 happens: alice requested changes and then approved, bob approved: approved.
ApprovalDerivationWitness ==
    /\ fnIn.fn = "getPullRequestInfo" /\ fnOut # << >>
    /\ fnIn.reviews = << [user |-> <<"alice">>, state |-> "CHANGES_REQUESTED"],
                         [user |-> <<"bob">>, state |-> "APPROVED"],
                         [user |-> <<"alice">>, state |-> "APPROVED"] >>
    /\ fnOut[1].approved

\* The path lies under the directory: every path for ".", else the directory itself
\* or a path that continues it after a slash.
LiesUnder(path, dir) ==
    \/ dir = "."
    \/ LET p == Chars(path)
           d == Chars(dir)
       IN  /\ Len(d) <= Len(p)
           /\ SubSeq(p, 1, Len(d)) = d
           /\ Len(p) > Len(d) => p[Len(d) + 1] = "/"

\* C27 (as stated): with a non-empty changed-file list a project (that the name and
\* branch filters let through) is kept if and only if at least one changed path lies
\* under its directory; with an empty list no project is excluded by this filter.
ChangedFileFilter ==
    (fnIn.fn = "filterProjects" /\ fnOut # << >>) =>
        \A k \in 1..Len(fnIn.projects) :
            LET project == fnIn.projects[k]
                named == fnIn.projectFilter = "" \/ IsKeyOf(fnIn.projectFilter, project)
                kept == \E j \in 1..Len(fnOut[1]) : fnOut[1][j] = project
            IN  kept <=>
                    /\ named
                    /\ \/ fnIn.changedFiles = << >>
                       \/ \E f \in 1..Len(fnIn.changedFiles) :
                              LiesUnder(fnIn.changedFiles[f], project.dir)

\* C28 (as stated): in a run the primary operation, plan or apply, is invoked at
\* most once for each configured project, also when the request names a project
\* more than once.
AtMostOneExecutionPerProject ==
    \A i \in 1..Len(config) :
        Cardinality({ k \in 1..Len(calls) :
                        /\ calls[k].project = config[i].name
                        /\ calls[k].step \in {"plan", "apply"} }) <= 1

\* C29: after a successful plan a failure of uploadPlanFile only gives a warning:
\* the run is not marked failed by it, setFailed is not called, and the remaining
\* projects are planned (the next project's terraform init is started; after the
\* last project the run ends successfully).
SoftArtifactSaveFailure ==
    [][ /\ pc' = "uploadPlanFileFailed" =>
               /\ status' = "running" /\ failure' = << >> /\ setFailedCalls' = 0
        /\ pc = "uploadPlanFileFailed" =>
               /\ setFailedCalls' = 0 /\ failure' = << >>
               /\ IF idx < Len(targets)
                  THEN /\ status' = "running" /\ idx' = idx + 1
                       /\ \E call \in running' :
                              /\ call.pos = idx + 1 /\ call.step = "init"
                              /\ call.project = targets[idx + 1]
                  ELSE status' = "success" ]_vars

\* C29 happens: the plan of the first of two projects succeeded and the upload of
\* its plan file failed.
SoftArtifactSaveFailureWitness ==
    /\ impl = "ts" /\ pc = "uploadPlanFileFailed"
    /\ command = "plan" /\ idx = 1 /\ Len(targets) = 2
    /\ result # << >> /\ result[1].exitCode = 0
    /\ status = "running"

\* Outcome (a): the comment holds no command; the tool was not invoked for any
\* project and no failure is reported.
RunSkipped ==
    /\ status = "skipped"
    /\ ProjectCalls = {}
    /\ failure = << >> /\ setFailedCalls = 0

\* Outcome (b): completed successfully, after the operation was invoked for every
\* project of the target list and none threw.
RunSucceeded ==
    /\ status = "success"
    /\ failure = << >> /\ setFailedCalls = 0
    /\ running = {}
    /\ \A i \in 1..Len(targets) :
           \E k \in ProjectCalls :
               /\ calls[k].pos = i /\ calls[k].project = targets[i]
               /\ calls[k].step = command

\* Outcome (c): failed; setFailed was called exactly once with the error's message
\* and no project after the failing one was executed.
RunFailed ==
    /\ status = "failed"
    /\ setFailedCalls = 1 /\ Len(failure) = 1
    /\ running = {}
    /\ \A k \in ProjectCalls : calls[k].pos <= idx

\* While run is going on nothing is reported; once it has returned, exactly one of
\* the three outcomes holds.
RunOutcome ==
    impl = "ts" =>
        IF pc = "done"
        THEN /\ RunSkipped \/ RunSucceeded \/ RunFailed
             /\ ~(RunSkipped /\ RunSucceeded)
             /\ ~(RunSkipped /\ RunFailed)
             /\ ~(RunSucceeded /\ RunFailed)
        ELSE status = "running" /\ failure = << >> /\ setFailedCalls = 0

====
